---- MODULE Spec2Model ----
(***************************************************************************)
(* Model of the MCP tool-invocation client of the admin frontend           *)
(* (admin-frontend/src/components/MCPManager.tsx): the React component     *)
(* state, the WebSocket callbacks installed by the connection effect, the  *)
(* deferred tools/list timer and the user-driven handlers.  The remote     *)
(* tool host and the network are the environment.                          *)
(***************************************************************************)
EXTENDS Integers, Sequences, FiniteSets, TLC

(***************************************************************************)
(* Bounds of the model.                                                    *)
(***************************************************************************)
MaxCalls == 2   \* tools/call frames the user may send in one session
MaxStray == 1   \* frames the host may send that answer no request
MaxFrames == 4  \* frames the host may send in one session, all told

(***************************************************************************)
(* Values.                                                                 *)
(***************************************************************************)
ToolNames == {"check_stock", "process_payment"}

\* inputSchema.properties of each tool: the fields renderToolForm shows
SchemaProps(t) ==
  IF t = "check_stock" THEN {"product_id"} ELSE {"product_id", "amount"}

\* inputSchema.properties[key].type
SchemaType(key) == IF key = "amount" THEN "number" ELSE "string"

\* every field name a form can show
ArgKeys == UNION {SchemaProps(t) : t \in ToolNames}

\* what a field hands to handleArgChange: a text field gives the text typed;
\* a field of type number gives "" for any input that is not a number (the
\* input taken here)
InputValues(key) ==
  IF SchemaType(key) = "number" THEN {""} ELSE {"SKU-1"}

\* values the user may type into a form field
ArgValues == UNION {InputValues(k) : k \in ArgKeys}

\* tool lists a tools/list result may carry
ToolSets == {ToolNames, {"check_stock"}}

\* WebSocket.readyState
CONNECTING == 0
OPEN == 1
CLOSING == 2
CLOSED == 3

\* messages the component writes into `error` (accents dropped)
ErrConnect == "Impossible de se connecter au serveur MCP."
ErrClosed == "Connexion MCP fermee."
ErrNotConnected == "WebSocket MCP non connecte."
ErrUnknownTool == "Outil non trouve."
ErrParsing == "Erreur de parsing MCP"
ErrServer == "server error"

\* the correlation ids the component puts on its requests
InitId == "init"
ListId == "list"
CallId(t) == "call_" \o t

(***************************************************************************)
(* Frames.  One record shape for both directions; unused fields are empty. *)
(* kind of a request is its method; kind of an incoming frame is the       *)
(* branch of socket.onmessage that it takes:                               *)
(*   "tools"    data.result.tools is truthy                                *)
(*   "content"  otherwise data.result.content is truthy (an array)         *)
(*   "error"    otherwise data.error is truthy                             *)
(*   "plain"    parses, none of the above (e.g. the initialize result)     *)
(*   "garbage"  JSON.parse (or the branch taken) throws                    *)
(***************************************************************************)
Frame(id, kind, name, args, ts, text) ==
  [id |-> id, kind |-> kind, name |-> name, args |-> args, tools |-> ts, text |-> text]

InitRequest == Frame(InitId, "initialize", "", {}, {}, "")
ListRequest == Frame(ListId, "tools/list", "", {}, {}, "")
CallRequest(t, args) == Frame(CallId(t), "tools/call", t, args, {}, "")

ToolsFrame(id, ts) == Frame(id, "tools", "", {}, ts, "")
ContentFrame(id, text) == Frame(id, "content", "", {}, {}, text)
ErrorFrame(id, msg) == Frame(id, "error", "", {}, {}, msg)
PlainFrame(id) == Frame(id, "plain", "", {}, {}, "")
GarbageFrame == Frame("", "garbage", "", {}, {}, "")

\* the text a tool returns on success: result.content[].text joined
ResultOf(t) == IF t = "check_stock" THEN "in_stock" ELSE "paid"

\* the value of lastFrame before any frame has been handled
NoFrame == Frame("", "none", "", {}, {}, "")

VARIABLES
  status,        \* useState 'checking' | 'online' | 'offline'
  tools,         \* useState MCPTool[] (the names; schemas are SchemaProps)
  selectedTool,  \* useState string
  toolArgs,      \* useState object, as a set of <<key, value>> pairs
  response,      \* useState string
  error,         \* useState string
  loading,       \* useState boolean
  readyState,    \* ws.readyState of the socket created by the effect
  isOpen,        \* the effect's local `let isOpen`
  timer,         \* the setTimeout of onopen: "none", "armed", "fired"
  mounted,       \* FALSE once the effect's cleanup has run
  sendLog,       \* history: the frames handed to socket.send, in order
  answered,      \* positions in sendLog of the requests whose response was handled
  initOK,        \* history: a success response to initialize was handled
  listOK,        \* history: a response to tools/list was handled
  nStray,        \* number of frames handled that answered no request
  nFrames,       \* number of frames handled by socket.onmessage
  lastFrame,     \* history: the frame socket.onmessage handled last
  deadlinePassed \* history: position in sendLog of the awaited call, once
                 \* its timeout period has run out (0: none, or none awaited)

vars == <<status, tools, selectedTool, toolArgs, response, error, loading,
          readyState, isOpen, timer, mounted, sendLog, answered, initOK,
          listOK, nStray, nFrames, lastFrame, deadlinePassed>>

uiVars == <<status, tools, selectedTool, toolArgs, response, error, loading>>

recvVars == <<answered, initOK, listOK, nStray, nFrames, lastFrame,
              deadlinePassed>>

\* what the effect body (lines 42-47) leaves behind, socket still connecting
Init ==
  /\ status = "checking"
  /\ tools = {}
  /\ selectedTool = ""
  /\ toolArgs = {}
  /\ response = ""
  /\ error = ""
  /\ loading = FALSE
  /\ readyState = CONNECTING
  /\ isOpen = FALSE
  /\ timer = "none"
  /\ mounted = TRUE
  /\ sendLog = <<>>
  /\ answered = {}
  /\ initOK = FALSE
  /\ listOK = FALSE
  /\ nStray = 0
  /\ nFrames = 0
  /\ lastFrame = NoFrame
  /\ deadlinePassed = 0

\* socket.send(frame): transmitted ("send") when the socket is OPEN; a socket
\* that is CLOSING or CLOSED discards the data without throwing ("drop")
SocketSend(log, rs, f) ==
  Append(log, [ev |-> IF rs = OPEN THEN "send" ELSE "drop", f |-> f])

\* positions in sendLog of the frames that went out on the wire
WirePositions == {i \in 1..Len(sendLog) : sendLog[i].ev = "send"}

\* a React state setter has no effect once the component is unmounted
SetState(cur, new) == IF mounted THEN new ELSE cur

(***************************************************************************)
(* The connection effect: socket callbacks (lines 49-100).                 *)
(***************************************************************************)

\* onopen without the initialize request of lines 53-62
OnOpen_NoInitialize ==
  /\ readyState = CONNECTING
  /\ readyState' = OPEN
  /\ isOpen' = TRUE
  /\ status' = SetState(status, "online")
  /\ sendLog' = sendLog
  /\ timer' = "armed"
  /\ UNCHANGED <<tools, selectedTool, toolArgs, response, error, loading,
                 mounted, recvVars>>

\* onopen sending tools/list at once as well as from the timer
OnOpen_ListAtOnce ==
  /\ readyState = CONNECTING
  /\ readyState' = OPEN
  /\ isOpen' = TRUE
  /\ status' = SetState(status, "online")
  /\ sendLog' = SocketSend(SocketSend(sendLog, OPEN, InitRequest), OPEN, ListRequest)
  /\ timer' = "armed"
  /\ UNCHANGED <<tools, selectedTool, toolArgs, response, error, loading,
                 mounted, recvVars>>

\* socket.onopen: the transport reaches OPEN and the open event is dispatched
\* in the same task; initialize is sent at once, tools/list by a 200 ms timer
OnOpen ==
  /\ readyState = CONNECTING
  /\ readyState' = OPEN
  /\ isOpen' = TRUE
  /\ status' = SetState(status, "online")
  /\ sendLog' = SocketSend(sendLog, OPEN, InitRequest)
  /\ timer' = "armed"
  /\ UNCHANGED <<tools, selectedTool, toolArgs, response, error, loading,
                 mounted, recvVars>>

\* the callback given to setTimeout in onopen; the timer is never cleared
OnListTimer ==
  /\ timer = "armed"
  /\ timer' = "fired"
  /\ sendLog' = SocketSend(sendLog, readyState, ListRequest)
  /\ UNCHANGED <<uiVars, readyState, isOpen, mounted, recvVars>>

\* the state written by socket.onerror
ErrorAfterOnError == SetState(error, ErrConnect)

\* the state written by socket.onclose, given the error shown before it runs
ErrorAfterOnClose(e) == IF isOpen THEN SetState(e, ErrClosed) ELSE e

\* OnError with the socket left as it was: the error handler runs, the
\* transport does not close and can still open
OnError_SocketStaysUsable ==
  /\ readyState \in {CONNECTING, OPEN}
  /\ readyState' = readyState
  /\ status' = SetState(status, "offline")
  /\ error' = ErrorAfterOnClose(ErrorAfterOnError)
  /\ UNCHANGED <<tools, selectedTool, toolArgs, response, loading, isOpen,
                 timer, mounted, sendLog, recvVars>>

\* the connection fails: readyState becomes CLOSED, then the error event and
\* the close event are dispatched back to back (onerror, then onclose)
OnError ==
  /\ readyState \in {CONNECTING, OPEN}
  /\ readyState' = CLOSED
  /\ status' = SetState(status, "offline")
  /\ error' = ErrorAfterOnClose(ErrorAfterOnError)
  /\ UNCHANGED <<tools, selectedTool, toolArgs, response, loading, isOpen,
                 timer, mounted, sendLog, recvVars>>

\* OnClose without the setStatus('offline') of line 78
OnClose_NoStatus ==
  /\ readyState \in {OPEN, CLOSING}
  /\ readyState' = CLOSED
  /\ status' = status
  /\ error' = ErrorAfterOnClose(error)
  /\ UNCHANGED <<tools, selectedTool, toolArgs, response, loading, isOpen,
                 timer, mounted, sendLog, recvVars>>

\* the connection closes without an error event (closed by the host, or the
\* closing handshake started by socket.close() finishes): onclose alone
OnClose ==
  /\ readyState \in {OPEN, CLOSING}
  /\ readyState' = CLOSED
  /\ status' = SetState(status, "offline")
  /\ error' = ErrorAfterOnClose(error)
  /\ UNCHANGED <<tools, selectedTool, toolArgs, response, loading, isOpen,
                 timer, mounted, sendLog, recvVars>>

\* the frames the host may answer a request with
Replies(req) ==
  CASE req.kind = "initialize" ->
         {PlainFrame(req.id), ErrorFrame(req.id, ErrServer)}
    [] req.kind = "tools/list" ->
         {ToolsFrame(req.id, ts) : ts \in ToolSets} \cup {ErrorFrame(req.id, ErrServer)}
    [] req.kind = "tools/call" ->
         {ContentFrame(req.id, ResultOf(req.name)), ErrorFrame(req.id, ErrServer)}

\* frames that answer nothing: undecodable data, or a response whose id is
\* not the id of any request of the session
StrayId == "stray"
StrayFrames ==
  {GarbageFrame, ContentFrame(StrayId, "stray text"), ErrorFrame(StrayId, ErrServer),
   ToolsFrame(StrayId, {"check_stock"})}

\* positions in sendLog of the requests on the wire not answered so far
Unanswered == WirePositions \ answered

\* the state socket.onmessage writes when it handles frame f
MessageEffect(f) ==
  /\ tools' = IF f.kind = "tools" THEN SetState(tools, f.tools) ELSE tools
  /\ response' = IF f.kind = "content" THEN SetState(response, f.text)
                 ELSE response
  /\ error' = CASE f.kind = "error" -> SetState(error, f.text)
                [] f.kind = "garbage" -> SetState(error, ErrParsing)
                [] OTHER -> error
  /\ loading' = IF f.kind \in {"content", "error", "garbage"}
                THEN SetState(loading, FALSE) ELSE loading

\* socket.onmessage applied to a frame arriving from the host: the answer to
\* a request the host received (requests are answered in any order), or a
\* stray frame.  Frames that arrive after the cleanup has run reach an
\* unmounted component, whose state setters do nothing; they are left out.
OnMessage ==
  /\ readyState = OPEN
  /\ nFrames < MaxFrames
  /\ nFrames' = nFrames + 1
  /\ \/ \E f \in StrayFrames :
          /\ nStray < MaxStray
          /\ nStray' = nStray + 1
          /\ lastFrame' = f
          /\ MessageEffect(f)
          /\ UNCHANGED <<answered, initOK, listOK>>
     \/ \E i \in Unanswered : \E f \in Replies(sendLog[i].f) :
          /\ answered' = answered \cup {i}
          /\ lastFrame' = f
          /\ MessageEffect(f)
          /\ initOK' = (initOK \/ (f.id = InitId /\ f.kind # "error"))
          /\ listOK' = (listOK \/ f.id = ListId)
          /\ nStray' = nStray
  /\ deadlinePassed' = IF loading' THEN deadlinePassed ELSE 0
  /\ UNCHANGED <<status, selectedTool, toolArgs, readyState, isOpen, timer,
                 mounted, sendLog>>

\* the effect's cleanup: socket.close() when the component unmounts
Unmount ==
  /\ mounted
  /\ mounted' = FALSE
  /\ readyState' = IF readyState \in {CONNECTING, OPEN} THEN CLOSING
                   ELSE readyState
  /\ UNCHANGED <<uiVars, isOpen, timer, sendLog, recvVars>>

(***************************************************************************)
(* The user-driven handlers (lines 104-139, 190).                          *)
(***************************************************************************)

\* handleToolChange(event), event.target.value one of the listed tools.
\* No element of the rendered tree is bound to it (the list items call
\* setSelectedTool directly), so it is not a step of Next.
HandleToolChange(v) ==
  /\ mounted
  /\ v \in tools
  /\ selectedTool' = v
  /\ toolArgs' = {}
  /\ response' = ""
  /\ error' = ""
  /\ UNCHANGED <<status, tools, loading, readyState, isOpen, timer, mounted,
                 sendLog, recvVars>>

\* onClick of a tool list item: setSelectedTool(tool.name) and nothing else
ClickTool(t) ==
  /\ mounted
  /\ t \in tools
  /\ selectedTool' = t
  /\ UNCHANGED <<status, tools, toolArgs, response, error, loading,
                 readyState, isOpen, timer, mounted, sendLog, recvVars>>

\* { ...prev, [key]: value }
PutArg(args, key, value) ==
  {p \in args : p[1] # key} \cup {<<key, value>>}

\* handleArgChange(key, value) from a field of the form renderToolForm shows
HandleArgChange(key, value) ==
  /\ mounted
  /\ selectedTool \in tools
  /\ key \in SchemaProps(selectedTool)
  /\ value \in InputValues(key)
  /\ toolArgs' = PutArg(toolArgs, key, value)
  /\ toolArgs' # toolArgs
  /\ UNCHANGED <<status, tools, selectedTool, response, error, loading,
                 readyState, isOpen, timer, mounted, sendLog, recvVars>>

\* positions in sendLog of the tools/call frames that went out on the wire
CallPositions == {i \in WirePositions : sendLog[i].f.kind = "tools/call"}

\* handleCallTool without the readyState test of lines 119-123
HandleCallTool_NoReadyCheck ==
  /\ mounted
  /\ selectedTool # ""
  /\ ~loading
  /\ response' = ""
  /\ IF selectedTool \notin tools
     THEN /\ error' = ErrUnknownTool
          /\ loading' = FALSE
          /\ sendLog' = sendLog
     ELSE /\ Cardinality(CallPositions) < MaxCalls
          /\ error' = ""
          /\ loading' = TRUE
          /\ sendLog' = SocketSend(sendLog, readyState, CallRequest(selectedTool, toolArgs))
  /\ UNCHANGED <<status, tools, selectedTool, toolArgs, readyState, isOpen,
                 timer, mounted, recvVars>>

\* handleCallTool without the tool lookup of lines 124-129
HandleCallTool_NoToolLookup ==
  /\ mounted
  /\ selectedTool # ""
  /\ ~loading
  /\ response' = ""
  /\ IF readyState # OPEN
     THEN /\ error' = ErrNotConnected
          /\ loading' = FALSE
          /\ sendLog' = sendLog
     ELSE /\ Cardinality(CallPositions) < MaxCalls
          /\ error' = ""
          /\ loading' = TRUE
          /\ sendLog' = SocketSend(sendLog, readyState, CallRequest(selectedTool, toolArgs))
  /\ UNCHANGED <<status, tools, selectedTool, toolArgs, readyState, isOpen,
                 timer, mounted, recvVars>>

\* handleCallTool refusing a call while an earlier one is unanswered
HandleCallTool_OneAtATime ==
  /\ mounted
  /\ selectedTool # ""
  /\ ~loading
  /\ response' = ""
  /\ IF readyState # OPEN
     THEN /\ error' = ErrNotConnected
          /\ loading' = FALSE
          /\ sendLog' = sendLog
     ELSE IF selectedTool \notin tools
     THEN /\ error' = ErrUnknownTool
          /\ loading' = FALSE
          /\ sendLog' = sendLog
     ELSE IF CallPositions \ answered # {}
     THEN /\ error' = "Appel en cours."
          /\ loading' = FALSE
          /\ sendLog' = sendLog
     ELSE /\ Cardinality(CallPositions) < MaxCalls
          /\ error' = ""
          /\ loading' = TRUE
          /\ sendLog' = SocketSend(sendLog, readyState, CallRequest(selectedTool, toolArgs))
  /\ UNCHANGED <<status, tools, selectedTool, toolArgs, readyState, isOpen,
                 timer, mounted, recvVars>>

\* handleCallTool sending `arguments: {}` instead of the toolArgs state
HandleCallTool_EmptyArguments ==
  /\ mounted
  /\ selectedTool # ""
  /\ ~loading
  /\ response' = ""
  /\ IF readyState # OPEN
     THEN /\ error' = ErrNotConnected
          /\ loading' = FALSE
          /\ sendLog' = sendLog
     ELSE IF selectedTool \notin tools
     THEN /\ error' = ErrUnknownTool
          /\ loading' = FALSE
          /\ sendLog' = sendLog
     ELSE /\ Cardinality(CallPositions) < MaxCalls
          /\ error' = ""
          /\ loading' = TRUE
          /\ sendLog' = SocketSend(sendLog, readyState, CallRequest(selectedTool, {}))
  /\ UNCHANGED <<status, tools, selectedTool, toolArgs, readyState, isOpen,
                 timer, mounted, recvVars>>

\* handleCallTool sending only the arguments the tool's schema declares
HandleCallTool_DeclaredArgsOnly ==
  /\ mounted
  /\ selectedTool # ""
  /\ ~loading
  /\ response' = ""
  /\ IF readyState # OPEN
     THEN /\ error' = ErrNotConnected
          /\ loading' = FALSE
          /\ sendLog' = sendLog
     ELSE IF selectedTool \notin tools
     THEN /\ error' = ErrUnknownTool
          /\ loading' = FALSE
          /\ sendLog' = sendLog
     ELSE /\ Cardinality(CallPositions) < MaxCalls
          /\ error' = ""
          /\ loading' = TRUE
          /\ sendLog' = SocketSend(sendLog, readyState,
                 CallRequest(selectedTool,
                             {p \in toolArgs : p[1] \in SchemaProps(selectedTool)}))
  /\ UNCHANGED <<status, tools, selectedTool, toolArgs, readyState, isOpen,
                 timer, mounted, recvVars>>

\* handleCallTool, run by the call button (rendered when a tool is selected,
\* disabled while loading)
HandleCallTool ==
  /\ mounted
  /\ selectedTool # ""
  /\ ~loading
  /\ response' = ""
  /\ IF readyState # OPEN
     THEN /\ error' = ErrNotConnected
          /\ loading' = FALSE
          /\ sendLog' = sendLog
     ELSE IF selectedTool \notin tools
     THEN /\ error' = ErrUnknownTool
          /\ loading' = FALSE
          /\ sendLog' = sendLog
     ELSE /\ Cardinality(CallPositions) < MaxCalls
          /\ error' = ""
          /\ loading' = TRUE
          /\ sendLog' = SocketSend(sendLog, readyState, CallRequest(selectedTool, toolArgs))
  /\ UNCHANGED <<status, tools, selectedTool, toolArgs, readyState, isOpen,
                 timer, mounted, recvVars>>

\* the tools/call frame sent last: the call whose outcome the panel awaits
LastCallPos == CHOOSE i \in CallPositions : \A j \in CallPositions : j <= i
LastCall == sendLog[LastCallPos].f

\* the timeout period of a call (section 4.4: e.g. 30 s) runs out while the
\* call is awaited.  handleCallTool arms no timer, so no handler runs and
\* no state of the component changes.
CallDeadline ==
  /\ mounted
  /\ loading
  /\ CallPositions # {}
  /\ LastCallPos \notin answered
  /\ deadlinePassed # LastCallPos
  /\ deadlinePassed' = LastCallPos
  /\ UNCHANGED <<uiVars, readyState, isOpen, timer, mounted, sendLog,
                 answered, initOK, listOK, nStray, nFrames, lastFrame>>

Next ==
  \/ OnOpen
  \/ OnListTimer
  \/ OnError
  \/ OnClose
  \/ OnMessage
  \/ Unmount
  \/ \E t \in ToolNames : ClickTool(t)
  \/ \E k \in ArgKeys, v \in ArgValues : HandleArgChange(k, v)
  \/ HandleCallTool
  \/ CallDeadline

Spec == Init /\ [][Next]_vars

\* the host answers the requests it received for as long as the socket is
\* open and the event loop runs the handlers of arrived frames and due timers
FairSpec ==
  /\ Spec
  /\ WF_vars(OnMessage)
  /\ WF_vars(OnListTimer)

(***************************************************************************)
(* Reading a step and the history.                                         *)
(***************************************************************************)

\* this step is a run of socket.onmessage; the frame it handled is lastFrame'
RecvStep == nFrames' = nFrames + 1

\* this step put a frame of the given method on the wire
SendStep(method) ==
  /\ Len(sendLog') = Len(sendLog) + 1
  /\ sendLog'[Len(sendLog')].ev = "send"
  /\ sendLog'[Len(sendLog')].f.kind = method

\* ids of the requests on the wire whose response has not been handled
PendingIds == {sendLog[i].f.id : i \in Unanswered}

\* the socket stays open and the host sends nothing more
HostSilent == readyState = OPEN /\ nFrames >= MaxFrames

\* this step handles the success response to the call at position a, which
\* was sent before the last call, to another tool, and is answered after it
LateAnswerTo(a) ==
  /\ RecvStep
  /\ a \in CallPositions
  /\ a \notin answered /\ a \in answered'
  /\ lastFrame'.kind = "content"
  /\ a < LastCallPos
  /\ sendLog[a].f.name # LastCall.name
  /\ LastCallPos \in answered
  /\ response = ResultOf(LastCall.name)

\* this step handles the host's error response to the call at position a
\* while the call sent last, another one, is still awaited
ErrorAnswerToOther(a) ==
  /\ RecvStep
  /\ a \in CallPositions
  /\ a \notin answered /\ a \in answered'
  /\ lastFrame'.kind = "error"
  /\ a # LastCallPos
  /\ LastCallPos \notin answered
  /\ loading

(***************************************************************************)
(* The validation of the arguments of a call against the tool's schema.    *)
(* handleCallTool has none; these say what the arguments violate.          *)
(***************************************************************************)

\* inputSchema.required of each tool: every declared field
SchemaRequired(t) == SchemaProps(t)

\* a value can be coerced to the declared type: text always, a number only
\* from a numeric string
NumericText == {"12"}
Coercible(type, value) == type # "number" \/ value \in NumericText

\* the keys of an argument object, and the value under a key it has
Supplied(args) == {p[1] : p \in args}
ValueOf(args, key) == (CHOOSE p \in args : p[1] = key)[2]

\* the fields of tool t that args violates: required and missing, or
\* supplied with a value that cannot be coerced to the declared type
Violations(t, args) ==
  {k \in SchemaRequired(t) : k \notin Supplied(args)}
    \cup {k \in SchemaProps(t) \cap Supplied(args) :
            ~Coercible(SchemaType(k), ValueOf(args, k))}

\* the InvalidArguments failure that lists the given fields
ErrInvalidArguments(fields) ==
  "InvalidArguments:" \o (IF "amount" \in fields THEN " amount" ELSE "")
                      \o (IF "product_id" \in fields THEN " product_id" ELSE "")

\* handleCallTool runs past its two tests (socket open, tool listed) with
\* arguments that violate the schema of the selected tool
CallWithInvalidArguments ==
  /\ HandleCallTool
  /\ status = "online"
  /\ selectedTool \in tools
  /\ Violations(selectedTool, toolArgs) # {}

\* handleCallTool runs past its two tests with arguments that satisfy the
\* schema of the selected tool
CallWithValidArguments ==
  /\ HandleCallTool
  /\ status = "online"
  /\ selectedTool \in tools
  /\ Violations(selectedTool, toolArgs) = {}

\* the entry of sendLog this step added
Sent == sendLog'[Len(sendLog')]

\* the entries of an argument object under keys the tool's schema lacks
Undeclared(t, args) == {p \in args : p[1] \notin SchemaProps(t)}

\* positions in sendLog of the tools/list requests handed to the socket
ListPositions == {i \in 1..Len(sendLog) : sendLog[i].f.kind = "tools/list"}

\* this step is a user operation: a tool is selected, a field is edited or
\* the call button is pressed
CallerStep ==
  \/ \E t \in ToolNames : ClickTool(t)
  \/ \E k \in ArgKeys, v \in ArgValues : HandleArgChange(k, v)
  \/ HandleCallTool

\* positions in sendLog of the tools/call frames on the wire not answered yet
InFlight == CallPositions \ answered

(***************************************************************************)
(* C1.  Each call issued while the session is open completes exactly once, *)
(* and only by a frame that carries the call's own correlation id: the     *)
(* awaited call (loading) is completed only by handling a frame whose id   *)
(* is the id of that call, and once it has completed no later frame writes *)
(* an outcome (response or error) again.                                   *)
(***************************************************************************)
C1_CompletedOnceByOwnId ==
  [][ /\ (mounted /\ loading /\ ~loading')
         => (RecvStep /\ lastFrame'.id = LastCall.id)
      /\ (mounted /\ RecvStep /\ ~loading /\ CallPositions # {})
         => (response' = response /\ error' = error)
    ]_vars

(***************************************************************************)
(* C2.  When the transport closes or errors while calls are pending, every *)
(* pending call is failed with the connection-lost error and its loading   *)
(* status is cleared, and no result is written after the close.            *)
(***************************************************************************)
C2_CloseFailsPending ==
  [][ /\ (mounted /\ readyState # CLOSED /\ readyState' = CLOSED /\ loading)
         => (~loading' /\ error' \in {ErrClosed, ErrConnect})
      /\ (mounted /\ readyState = CLOSED)
         => (response' = response \/ response' = "")
    ]_vars

(***************************************************************************)
(* C3.  Every call that sent its tools/call frame eventually completes:    *)
(* whenever the component is awaiting a call (loading), it eventually      *)
(* stops awaiting it (or is torn down), given that the transport either    *)
(* delivers a response or closes.  HostSilent is the one case outside that *)
(* assumption: the socket stays open and the host sends nothing more.      *)
(***************************************************************************)
C3_CallEventuallyCompletes ==
  (mounted /\ loading) ~> (~loading \/ ~mounted \/ HostSilent)

(***************************************************************************)
(* C4.  Two calls to different tools in flight together, answered in the   *)
(* reverse of the send order: the call sent last has been answered and its *)
(* result is shown; when the answer to the earlier call then arrives, the  *)
(* result shown for the call sent last is still its own, not the result of *)
(* the other call.                                                         *)
(***************************************************************************)
C4_ResultsNotSwapped ==
  [][ (mounted /\ \E a \in 1..Len(sendLog) : LateAnswerTo(a))
        => response' = ResultOf(LastCall.name)
    ]_vars

(***************************************************************************)
(* C5.  A response whose id matches no pending request is ignored: handling *)
(* it changes neither the shown result, the shown error, the loading       *)
(* status, the tool set nor the connection status.                         *)
(***************************************************************************)
C5_UnmatchedResponseIgnored ==
  [][ (RecvStep /\ lastFrame'.kind # "garbage" /\ lastFrame'.id \notin PendingIds)
        => UNCHANGED <<response, error, loading, tools, status>>
    ]_vars

(***************************************************************************)
(* C6.  A frame that cannot be decoded never resolves or rejects a pending *)
(* call: when it is handled while a call is awaited, the call is still     *)
(* awaited afterwards (loading) and no error or result is shown for it.    *)
(***************************************************************************)
C6_MalformedFrameCompletesNothing ==
  [][ (mounted /\ RecvStep /\ lastFrame'.kind = "garbage" /\ loading)
        => (loading' /\ UNCHANGED <<error, response>>)
    ]_vars

(***************************************************************************)
(* C7.  handleCallTool run while the connection status is not online sends *)
(* no frame (nothing is handed to the socket), leaves no call awaited and  *)
(* fails at once with the not-connected error.                             *)
(***************************************************************************)
C7_NotOnlineCallSendsNothing ==
  [][ (HandleCallTool /\ status # "online")
        => (sendLog' = sendLog /\ ~loading' /\ response' = "" /\ error' = ErrNotConnected)
    ]_vars

\* a call was attempted after the connection went offline, and was refused
C7_Witness ==
  /\ mounted
  /\ status = "offline"
  /\ selectedTool \in tools
  /\ error = ErrNotConnected
  /\ ~loading

(***************************************************************************)
(* C8.  handleCallTool with a selected tool that is not in the tool list   *)
(* fails at once with the unknown-tool error, sends no frame and leaves no *)
(* call awaited.                                                           *)
(***************************************************************************)
C8_UnknownToolFailsFast ==
  [][ (HandleCallTool /\ selectedTool \notin tools)
        => (sendLog' = sendLog /\ ~loading' /\ error' = ErrUnknownTool)
    ]_vars

(***************************************************************************)
(* C8 as amended.  handleCallTool with a selected tool that is not in the  *)
(* tool list sends no frame and leaves no call awaited; it fails with the  *)
(* unknown-tool error when the socket is open, and with the not-connected  *)
(* error (tested first) when it is not.                                    *)
(***************************************************************************)
C8_UnknownToolFailsFastWhenConnected ==
  [][ (HandleCallTool /\ selectedTool \notin tools)
        => /\ sendLog' = sendLog
           /\ ~loading'
           /\ error' = IF readyState = OPEN THEN ErrUnknownTool ELSE ErrNotConnected
    ]_vars

\* a call to a tool that left the tool list was refused on an open socket
C8_Witness ==
  /\ mounted
  /\ readyState = OPEN
  /\ selectedTool # ""
  /\ selectedTool \notin tools
  /\ error = ErrUnknownTool
  /\ ~loading

(***************************************************************************)
(* C9.  No tools/call frame is sent before the handshake has completed:    *)
(* whenever a tools/call frame goes out on the wire, a success response to *)
(* the initialize request and a response to the tools/list request have    *)
(* been handled.                                                           *)
(***************************************************************************)
C9_NoCallBeforeHandshake ==
  [][ SendStep("tools/call") => (initOK /\ listOK) ]_vars

(***************************************************************************)
(* C10.  The tools/list request is sent only after a success response to   *)
(* the initialize request has been handled.                                *)
(***************************************************************************)
C10_ListAfterInitSuccess ==
  [][ SendStep("tools/list") => initOK ]_vars

(***************************************************************************)
(* C11.  The displayed connection status becomes online only by handling   *)
(* the tools/list response that fills the tool list; the open event of the *)
(* transport alone does not make it online.                                *)
(***************************************************************************)
C11_OnlineOnlyAfterToolList ==
  [][ (status # "online" /\ status' = "online")
        => (RecvStep /\ lastFrame'.id = ListId /\ lastFrame'.kind = "tools")
    ]_vars

(***************************************************************************)
(* C12.  Closed is terminal: once the displayed connection status is       *)
(* offline, no later step (open, message, error, close, timer, call, tool  *)
(* selection, unmount) changes it back to checking or online.              *)
(***************************************************************************)
C12_ClosedIsTerminal ==
  [][ status = "offline" => status' = "offline" ]_vars

\* the status went offline and the component went on running: the list timer
\* fired on the closed socket and a call was attempted and refused
C12_Witness ==
  /\ status = "offline"
  /\ readyState = CLOSED
  /\ timer = "fired"
  /\ \E i \in 1..Len(sendLog) : sendLog[i].ev = "drop"
  /\ error = ErrNotConnected

(***************************************************************************)
(* C13.  Whenever the transport errors or closes while the component is    *)
(* mounted and its socket is connecting or open, the displayed connection  *)
(* status is offline right after that step.                                *)
(***************************************************************************)
C13_TransportLossShowsOffline ==
  [][ (mounted /\ readyState \in {CONNECTING, OPEN} /\ readyState' = CLOSED)
        => status' = "offline"
    ]_vars

\* an open session was closed by the host and shows it
C13_Witness ==
  /\ mounted
  /\ isOpen
  /\ readyState = CLOSED
  /\ status = "offline"
  /\ error = ErrClosed

(***************************************************************************)
(* C14.  An error local to one call fails only that call.  When the host's *)
(* error response to one call is handled while another call is awaited,    *)
(* the other call is still awaited afterwards and nothing is shown for it; *)
(* and neither such a response nor a call refused for an unknown tool      *)
(* changes the connection status or the tool list.                         *)
(***************************************************************************)
C14_LocalErrorFailsOnlyItsCall ==
  [][ /\ (mounted /\ \E a \in 1..Len(sendLog) : ErrorAnswerToOther(a))
         => (loading' /\ error' = error /\ response' = response)
      /\ (\/ (RecvStep /\ lastFrame'.kind = "error" /\ lastFrame'.id \notin {InitId, ListId, StrayId})
          \/ (HandleCallTool /\ readyState = OPEN /\ selectedTool \notin tools))
         => UNCHANGED <<status, tools>>
    ]_vars

(***************************************************************************)
(* C15.  At every moment no two outstanding requests share a correlation   *)
(* id: any two requests that are on the wire and not answered yet          *)
(* (initialize, tools/list or tools/call) carry different ids.             *)
(***************************************************************************)
C15_OutstandingIdsDistinct ==
  \A i, j \in Unanswered : i # j => sendLog[i].f.id # sendLog[j].f.id

(***************************************************************************)
(* C16.  The outcome of a call is result content or an error, never both:  *)
(* once a call has been issued, the component never holds (and shows) a    *)
(* non-empty response together with a non-empty error.                     *)
(***************************************************************************)
C16_ResultXorError ==
  (mounted /\ CallPositions # {}) => ~(response # "" /\ error # "")

(***************************************************************************)
(* C17.  handleCallTool with arguments that violate the schema of the      *)
(* selected tool (a required field is missing, or a value cannot be        *)
(* coerced to its declared type) fails with InvalidArguments, leaves no    *)
(* call awaited and hands no frame to the socket.                          *)
(***************************************************************************)
C17_InvalidArgumentsSendsNothing ==
  [][ CallWithInvalidArguments
        => /\ sendLog' = sendLog
           /\ ~loading'
           /\ error' \in {ErrInvalidArguments(S) : S \in (SUBSET ArgKeys) \ {{}}}
    ]_vars

(***************************************************************************)
(* C18.  The InvalidArguments failure lists all violations at once: the    *)
(* fields it reports are exactly the required fields missing from the      *)
(* arguments together with the supplied fields whose value cannot be       *)
(* coerced.  Stated for a tool that declares several fields, as            *)
(* process_payment {product_id: string, amount: number}: {} reports both   *)
(* fields, {product_id: "SKU-1", amount: ""} reports amount only.          *)
(***************************************************************************)
C18_AllViolationsListed ==
  [][ (CallWithInvalidArguments /\ Cardinality(SchemaProps(selectedTool)) > 1)
        => error' = ErrInvalidArguments(Violations(selectedTool, toolArgs))
    ]_vars

(***************************************************************************)
(* C19.  handleCallTool that passes the connection test and the tool       *)
(* lookup with arguments that satisfy the schema sends exactly one frame:  *)
(* a tools/call request whose params carry the selected tool's name and    *)
(* the argument values of the form.                                        *)
(***************************************************************************)
C19_ValidCallSendsOneFrame ==
  [][ CallWithValidArguments
        => /\ Len(sendLog') = Len(sendLog) + 1
           /\ SubSeq(sendLog', 1, Len(sendLog)) = sendLog
           /\ Sent.ev = "send"
           /\ Sent.f.kind = "tools/call"
           /\ Sent.f.name = selectedTool
           /\ Sent.f.args = toolArgs
    ]_vars

\* check_stock was called with the product id typed into its form, and the
\* frame on the wire carries that name and that argument
C19_Witness ==
  \E i \in CallPositions :
     /\ sendLog[i].f.name = "check_stock"
     /\ sendLog[i].f.args = {<<"product_id", "SKU-1">>}

(***************************************************************************)
(* C20.  Argument keys that the selected tool's schema does not declare    *)
(* appear unchanged, same key and same value, in params.arguments of the   *)
(* tools/call frame that is sent: none is stripped, rewritten or added.    *)
(***************************************************************************)
C20_UndeclaredKeysPassThrough ==
  [][ (HandleCallTool /\ SendStep("tools/call"))
        => Undeclared(selectedTool, Sent.f.args) = Undeclared(selectedTool, toolArgs)
    ]_vars

\* a value typed into the amount field of process_payment stayed in toolArgs
\* when check_stock was selected, and went out in the call to check_stock
C20_Witness ==
  \E i \in CallPositions :
     /\ sendLog[i].f.name = "check_stock"
     /\ <<"amount", "">> \in sendLog[i].f.args

(***************************************************************************)
(* C21.  Reading the tool list sends no tools/list frame and returns the   *)
(* same list: across a session at most one tools/list request is handed to *)
(* the socket (exactly one once the timer of onopen has run), and no user  *)
(* operation sends one or changes the tool list.                           *)
(***************************************************************************)
C21_ListRequestedOnce ==
  [][ /\ Cardinality(ListPositions') <= 1
      /\ (timer' = "fired") => (Cardinality(ListPositions') = 1)
      /\ CallerStep => (tools' = tools /\ ListPositions' = ListPositions)
    ]_vars

\* the tool list was discovered, then read and used: a tool of it was
\* selected and called, with one tools/list request in the whole session
C21_Witness ==
  /\ listOK
  /\ selectedTool \in tools
  /\ CallPositions # {}
  /\ Cardinality(ListPositions) = 1

(***************************************************************************)
(* C22.  The tool list is written only when the response to the tools/list *)
(* request is handled: no other incoming frame and no user operation       *)
(* changes it.                                                             *)
(***************************************************************************)
C22_ToolsWrittenOnlyByListResponse ==
  [][ tools' # tools
        => (RecvStep /\ lastFrame'.id = ListId /\ lastFrame'.kind = "tools")
    ]_vars

(***************************************************************************)
(* C23.  No frame is handed to a transport that is not open: every frame   *)
(* the component passes to socket.send is transmitted, none is dropped by  *)
(* a socket that is closing or closed; this covers the handshake frames as *)
(* well as tools/call.                                                     *)
(***************************************************************************)
C23_NoSendOnClosedTransport ==
  \A i \in 1..Len(sendLog) : sendLog[i].ev = "send"

(***************************************************************************)
(* C24.  When the timeout of a call and the response to that call come     *)
(* close together, one of the two completes the call and the later one     *)
(* changes nothing: once the timeout period of the awaited call has run    *)
(* out, handling the response to that call changes neither the shown       *)
(* result, the shown error nor the loading status.                         *)
(***************************************************************************)
C24_LateResponseAfterTimeoutIsNoOp ==
  [][ (mounted /\ RecvStep /\ CallPositions # {}
         /\ deadlinePassed = LastCallPos
         /\ LastCallPos \notin answered /\ LastCallPos \in answered')
        => UNCHANGED <<response, error, loading>>
    ]_vars

(***************************************************************************)
(* C25.  A handshake failure closes the session: when the error response   *)
(* to the initialize or the tools/list request is handled, the connection  *)
(* status is offline afterwards (never online) and no call is left         *)
(* awaited.                                                                *)
(***************************************************************************)
C25_HandshakeFailureCloses ==
  [][ (mounted /\ RecvStep /\ lastFrame'.kind = "error"
         /\ lastFrame'.id \in {InitId, ListId})
        => (status' = "offline" /\ ~loading')
    ]_vars

(***************************************************************************)
(* C26.  While the status is online a second call can be issued and its    *)
(* frame sent while an earlier call is still unanswered: handleCallTool    *)
(* does not refuse or hold back a call because another one is in flight,   *)
(* and two calls are then in flight at once.                               *)
(***************************************************************************)
C26_SecondCallWhileFirstInFlight ==
  [][ (HandleCallTool /\ status = "online" /\ selectedTool \in tools /\ InFlight # {})
        => (SendStep("tools/call") /\ Cardinality(InFlight') >= 2)
    ]_vars

\* two calls are on the wire and neither has been answered
C26_Witness ==
  /\ status = "online"
  /\ Cardinality(InFlight) >= 2

(***************************************************************************)
(* C27.  Losing the connection or unmounting before the 200 ms timer runs  *)
(* cancels the deferred tools/list request: once the socket is closing or  *)
(* closed, or the cleanup has run, the timer callback does not run and no  *)
(* tools/list frame is handed to the socket.                               *)
(***************************************************************************)
C27_TeardownCancelsListTimer ==
  [][ (timer = "armed" /\ (readyState # OPEN \/ ~mounted))
        => (timer' = "armed" /\ ListPositions' = ListPositions)
    ]_vars

(***************************************************************************)
(* C28.  Whenever the selected tool changes, the collected arguments are   *)
(* reset to empty, so that values entered for one tool are never sent to   *)
(* another.                                                                *)
(***************************************************************************)
C28_SelectionResetsArguments ==
  [][ selectedTool' # selectedTool => toolArgs' = {} ]_vars

(***************************************************************************)
(* C29.  At most one tools/call is outstanding at any time: no second      *)
(* tools/call frame is on the wire before the first has been answered,     *)
(* whatever other frames arrive in between.                                *)
(***************************************************************************)
C29_AtMostOneCallOutstanding ==
  Cardinality(InFlight) <= 1

(***************************************************************************)
(* C30.  The initialize request is sent exactly once, as the first frame   *)
(* on the wire, by the open event of the transport; every other frame is   *)
(* sent after it, and nothing is sent if the transport never opens.        *)
(***************************************************************************)
C30_InitializeOnceAndFirst ==
  [][ /\ (readyState = CONNECTING /\ readyState' = OPEN)
         => sendLog' = <<[ev |-> "send", f |-> InitRequest]>>
      /\ ~isOpen' => sendLog' = <<>>
      /\ sendLog' # <<>>
         => /\ sendLog'[1] = [ev |-> "send", f |-> InitRequest]
            /\ \A i \in 2..Len(sendLog') : sendLog'[i].f.kind # "initialize"
    ]_vars

\* a whole session on the wire: initialize, then tools/list and a tools/call
C30_Witness ==
  /\ Len(sendLog) >= 3
  /\ \E i \in WirePositions : sendLog[i].f.kind = "tools/list"
  /\ CallPositions # {}
  /\ initOK

====
